---- MODULE Spec2Model ----
(***************************************************************************)
(* Model of src/src/app/page.js: the BlockCreator component (a parametric  *)
(* plate with a center slot), its helpers, its event handlers and its      *)
(* effect.                                                                 *)
(*                                                                         *)
(* Numbers.  A JavaScript number x is modelled by its value in exact       *)
(* arithmetic, the integer x * Scale (fixed point).  Scale is a multiple   *)
(* of 254 and of 200, so that on the input grids used here x * 25.4,       *)
(* x / 25.4, x * 0.9 and x / 2 are all exact.  Where the rounding of the   *)
(* double shows, in toFixed, in Math.floor and in Math.min and Math.max on *)
(* equal exact values, the double itself is computed: a stored parameter   *)
(* carries the distance of its double from the double nearest its exact    *)
(* value, and the products that lead to a printed number are redone in     *)
(* 53-bit arithmetic.  Lengths of the drawing are kept in exact            *)
(* arithmetic.  Non-finite numbers only arise in Number() and in Dim's     *)
(* division; they are the records NaN, PosInf and NegInf below.            *)
(***************************************************************************)
EXTENDS Integers, Sequences, FiniteSets, TLC

Scale == 254 * 200

\* The literal n/d as a fixed-point number.
Num(n, d) == (n * Scale) \div d

Abs(x) == IF x < 0 THEN -x ELSE x

Max(a, b) == IF a >= b THEN a ELSE b

Min(a, b) == IF a <= b THEN a ELSE b

---------------------------------------------------------------------------
(* Bounds of the model.                                                    *)

\* Numeric raw inputs of the parameter grid are i * RawStepIn (unit "in") or
\* i * RawStepMm (unit "mm") for i in 0..MaxRaw.
MaxRaw == 2

\* inchesToEngineeringStr is applied to measurements of up to MaxFeet feet
\* beyond their inches.
MaxFeet == 2

\* Dim is applied to anchor points with coordinates i * 50 px, |i| <= MaxPt.
MaxPt == 1

---------------------------------------------------------------------------
(* JavaScript values.                                                      *)

Fin(n) == [c |-> "finite", n |-> n]

NaN == [c |-> "NaN", n |-> 0]

PosInf == [c |-> "Infinity", n |-> 1]

NegInf == [c |-> "Infinity", n |-> -1]

isFinite(x) == x.c = "finite"

\* A raw value handed to a handler: a number (or a numeric string that
\* spells it), some other string, or one of the non-finite numbers.
RawNum(n) == [kind |-> "num", n |-> n, s |-> ""]

RawStr(s) == [kind |-> "str", n |-> 0, s |-> s]

RawNaN == [kind |-> "NaN", n |-> 0, s |-> ""]

RawInf(sign) == [kind |-> "Infinity", n |-> sign, s |-> ""]

\* Number(v): "" and whitespace-only strings convert to 0, the strings
\* "Infinity" and "-Infinity" to the infinities, any other non-numeric
\* string to NaN.
Number(v) ==
  CASE v.kind = "num" -> Fin(v.n)
    [] v.kind = "NaN" -> NaN
    [] v.kind = "Infinity" -> (IF v.n < 0 THEN NegInf ELSE PosInf)
    [] v.kind = "str" ->
         (IF v.s \in {"", " "} THEN Fin(0)
          ELSE IF v.s = "Infinity" THEN PosInf
          ELSE IF v.s = "-Infinity" THEN NegInf
          ELSE NaN)

---------------------------------------------------------------------------
(* helpers                                                                 *)

clamp(v, min, max) == Max(min, Min(max, v))

ensureNumber(v, fallback) ==
  LET n == Number(v) IN IF isFinite(n) THEN n.n ELSE fallback

\* uiVal and fromUi close over the unit state; here the unit is a parameter.
uiVal(u, inches) == IF u = "in" THEN inches ELSE (inches * 254) \div 10

fromUi(u, val) == IF u = "in" THEN val ELSE (val * 10) \div 254

---------------------------------------------------------------------------
(* IEEE-754 doubles, where their rounding shows.  A double is a 53-bit     *)
(* mantissa m, four limbs of 14 bits with the least significant first, and *)
(* an exponent e: its magnitude is m * 2^e.  The operations are functions, *)
(* so that an argument is evaluated once.                                  *)

Limb == 2^14

FracLimbs == 6

RECURSIVE Pow2(_)
Pow2(k) == IF k = 0 THEN 1 ELSE 2 * Pow2(k - 1)

RECURSIVE BitLength(_)
BitLength(n) == IF n = 0 THEN 0 ELSE 1 + BitLength(n \div 2)

Sign(n) == IF n > 0 THEN 1 ELSE IF n < 0 THEN -1 ELSE 0

\* A natural number in limbs, scaled by 2^e, with or without a non-zero
\* tail below its last limb.
Bigs == [x : Seq(Nat), tail : BOOLEAN, e : Int]

Doubles == [m : Seq(Nat), e : Int]

\* The remainder left after k limbs of the binary expansion of r / Scale.
RECURSIVE FracRem(_, _)
FracRem(r, k) == IF k = 0 THEN r ELSE FracRem((r * Limb) % Scale, k - 1)

\* The binary expansion of n / Scale, n > 0: the integer part and FracLimbs
\* limbs of the fraction, and whether a non-zero tail is left below them.
Expand[n \in Nat] ==
  LET q == n \div Scale
      r == n % Scale
  IN [x |-> [j \in 1..(FracLimbs + 2) |->
               IF j <= FracLimbs THEN (FracRem(r, FracLimbs - j) * Limb) \div Scale
               ELSE IF j = FracLimbs + 1 THEN q % Limb
               ELSE q \div Limb],
      tail |-> FracRem(r, FracLimbs) # 0,
      e |-> -14 * FracLimbs]

LimbAt(x, i) == IF i + 1 \in DOMAIN x THEN x[i + 1] ELSE 0

\* The 14 bits of x from bit pos upwards.
BitsAt(x, pos) ==
  LET a == pos \div 14
      b == pos % 14
  IN LimbAt(x, a) \div Pow2(b) + (LimbAt(x, a + 1) % Pow2(b)) * Pow2(14 - b)

BitOf(x, pos) == (LimbAt(x, pos \div 14) \div Pow2(pos % 14)) % 2

\* The s lowest bits of x are all 0.
LowZero(x, s) ==
  /\ \A i \in 0..((s \div 14) - 1) : LimbAt(x, i) = 0
  /\ LimbAt(x, s \div 14) % Pow2(s % 14) = 0

RECURSIVE TopLimb(_, _)
TopLimb(x, j) == IF j = 1 \/ x[j] # 0 THEN j ELSE TopLimb(x, j - 1)

BigBitLength(x) ==
  LET h == TopLimb(x, Len(x)) IN 14 * (h - 1) + BitLength(x[h])

RECURSIVE AddOne(_, _)
AddOne(m, j) ==
  IF j > Len(m) THEN m
  ELSE IF m[j] + 1 < Limb THEN [m EXCEPT ![j] = m[j] + 1]
  ELSE AddOne([m EXCEPT ![j] = 0], j + 1)

\* The 53 leading bits of b.x * 2^b.e, cut off, and whether that is exact.
Floor53[b \in Bigs] ==
  LET s == BigBitLength(b.x) - 53
  IN [m |-> [i \in 1..4 |-> BitsAt(b.x, s + 14 * (i - 1))],
      e |-> b.e + s,
      exact |-> ~b.tail /\ LowZero(b.x, s)]

\* The next double above and the next below.
Succ[a \in Doubles] ==
  LET m == AddOne(a.m, 1)
  IN IF m[4] = Pow2(11) THEN [m |-> <<0, 0, 0, Pow2(10)>>, e |-> a.e + 1]
     ELSE [m |-> m, e |-> a.e]

\* Round to nearest, ties to even: the double nearest b.x * 2^b.e.
Round53[b \in Bigs] ==
  LET s == BigBitLength(b.x) - 53
      f == Floor53[b]
      sticky == b.tail \/ ~LowZero(b.x, s - 1)
      up == BitOf(b.x, s - 1) = 1 /\ (sticky \/ f.m[1] % 2 = 1)
  IN IF up THEN Succ[[m |-> f.m, e |-> f.e]] ELSE [m |-> f.m, e |-> f.e]

\* The double a literal of value n / Scale, n > 0, denotes.
Nearest(n) == Round53[Expand[n]]

\* a * b for doubles: the exact 106-bit product, rounded.
DoubleTimes[a \in Doubles, b \in Doubles] ==
  LET Col(k) ==
        LET t(i) == IF k - i \in 0..3 THEN a.m[i + 1] * b.m[k - i + 1] ELSE 0
        IN t(0) + t(1) + t(2) + t(3)
      Sums[k \in 0..7] == IF k = 0 THEN Col(0) ELSE Col(k) + Sums[k - 1] \div Limb
  IN Round53[[x |-> [j \in 1..8 |-> Sums[j - 1] % Limb],
              tail |-> FALSE,
              e |-> a.e + b.e]]

MantissaCmp(a, b) ==
  IF a[4] # b[4] THEN Sign(a[4] - b[4])
  ELSE IF a[3] # b[3] THEN Sign(a[3] - b[3])
  ELSE IF a[2] # b[2] THEN Sign(a[2] - b[2])
  ELSE Sign(a[1] - b[1])

\* -1, 0 or 1 as the double a is below, equal to or above the double b.
DoubleCmp[a \in Doubles, b \in Doubles] ==
  IF a.e # b.e THEN Sign(a.e - b.e) ELSE MantissaCmp(a.m, b.m)

\* -1, 0 or 1 as the double a is below, equal to or above n / Scale, n > 0.
DoubleCmpExact[a \in Doubles, n \in Nat] ==
  LET f == Floor53[Expand[n]]
      c == DoubleCmp[a, [m |-> f.m, e |-> f.e]]
  IN IF c # 0 THEN c ELSE IF f.exact THEN 0 ELSE -1

\* 2 * r for a remainder r of the long division; its top limb may grow.
Twice(r) ==
  LET Sums[i \in 1..4] == 2 * r[i] + (IF i = 1 THEN 0 ELSE Sums[i - 1] \div Limb)
  IN [i \in 1..4 |-> IF i < 4 THEN Sums[i] % Limb ELSE Sums[i]]

\* r - b for limbs r >= b.
Minus(r, b) ==
  LET Diff[i \in 1..4] == r[i] - b[i] - (IF i = 1 \/ Diff[i - 1] >= 0 THEN 0 ELSE 1)
  IN [i \in 1..4 |-> IF i < 4 THEN Diff[i] % Limb ELSE Diff[i]]

\* The long division of r by b, with the bits of the quotient so far.
DivStates == [r : Seq(Nat), b : Seq(Nat), bits : Seq(Nat)]

\* One step of the long division of r by b: the next bit of the quotient
\* (the units bit first) and the remainder, doubled.
DivStep[s \in DivStates] ==
  IF MantissaCmp(s.r, s.b) >= 0
  THEN [r |-> Twice(Minus(s.r, s.b)), b |-> s.b, bits |-> Append(s.bits, 1)]
  ELSE [r |-> Twice(s.r), b |-> s.b, bits |-> Append(s.bits, 0)]

RECURSIVE LongDiv(_, _)
LongDiv(s, n) == IF n = 0 THEN s ELSE LongDiv(DivStep[s], n - 1)

QuotientBits == 55

RECURSIVE BitsValue(_, _, _)
BitsValue(bits, from, to) ==
  IF to < from THEN 0
  ELSE 2 * BitsValue(bits, from, to - 1) + (IF to \in DOMAIN bits THEN bits[to] ELSE 0)

\* The bits of a quotient as a number in limbs.
Quotient[s \in DivStates, e \in Int] ==
  Round53[[x |-> [j \in 1..4 |->
                    BitsValue(s.bits, QuotientBits - 14 * j + 1, QuotientBits - 14 * (j - 1))],
           tail |-> s.r # <<0, 0, 0, 0>>,
           e |-> e]]

\* a / b for doubles: QuotientBits bits of the quotient of the mantissas
\* and the sticky rest, rounded.
DoubleOver[a \in Doubles, b \in Doubles] ==
  Quotient[LongDiv([r |-> a.m, b |-> b.m, bits |-> <<>>], QuotientBits),
           a.e - b.e - (QuotientBits - 1)]

Pred[a \in Doubles] ==
  IF a.m = <<0, 0, 0, Pow2(10)>>
  THEN [m |-> <<Limb - 1, Limb - 1, Limb - 1, Pow2(11) - 1>>, e |-> a.e - 1]
  ELSE [m |-> Minus(a.m, <<1, 0, 0, 0>>), e |-> a.e]

ShiftUlps[a \in Doubles, k \in Int] ==
  IF k = 0 THEN a
  ELSE IF k > 0 THEN ShiftUlps[Succ[a], k - 1]
  ELSE ShiftUlps[Pred[a], k + 1]

\* A computed double is looked for within MaxUlps doubles of the one
\* nearest its exact value; one rounded product or quotient lies within 2.
MaxUlps == 4

\* How many doubles a lies above (below, when negative) the double nearest
\* n / Scale, n > 0.
UlpsFrom[a \in Doubles, n \in Nat] ==
  CHOOSE k \in (-MaxUlps)..MaxUlps : DoubleCmp[ShiftUlps[Nearest(n), k], a] = 0

\* A JavaScript number: v is its value in exact arithmetic.  The double
\* itself is k doubles above the double nearest src (in magnitude),
\* multiplied, in order and each product rounded, by the literals ops.
Lit(v) == [v |-> v, src |-> v, k |-> 0, ops |-> <<>>]

\* x * (n / d) for the literal n / d.
Times(x, n, d) ==
  [v |-> (x.v * n) \div d, src |-> x.src, k |-> x.k, ops |-> Append(x.ops, Num(n, d))]

RECURSIVE Product(_, _, _)
Product(src, k, ops) ==
  IF ops = <<>> THEN ShiftUlps[Nearest(Abs(src)), k]
  ELSE DoubleTimes[Product(src, k, SubSeq(ops, 1, Len(ops) - 1)), Nearest(ops[Len(ops)])]

Double(x) == Product(x.src, x.k, x.ops)

\* -1, 0 or 1 as the magnitude of the double of x is below, equal to or
\* above the magnitude of x.v.
Dev(x) ==
  IF x.v = 0 THEN 0
  ELSE IF x.ops = <<>> /\ x.k # 0 THEN Sign(x.k)
  ELSE DoubleCmpExact[Double(x), Abs(x.v)]

\* x < y as doubles.
NumLess(x, y) ==
  \/ x.v < y.v
  \/ x.v = y.v /\ x.v # 0 /\ Sign(x.v) * DoubleCmp[Double(x), Double(y)] < 0

\* x / 25.4 and x * 25.4 / 25.4 on a double x that lies k doubles above
\* the one nearest v / Scale: how many doubles the result lies above the
\* one nearest its exact value, (v / Scale) / 25.4 and v / Scale.
QuotientUlps(v, k) ==
  IF v = 0 THEN 0
  ELSE UlpsFrom[DoubleOver[ShiftUlps[Nearest(Abs(v)), k], Nearest(Num(254, 10))],
                (Abs(v) * 10) \div 254]

RoundTripUlps(v, k) ==
  IF v = 0 THEN 0
  ELSE UlpsFrom[DoubleOver[DoubleTimes[ShiftUlps[Nearest(Abs(v)), k], Nearest(Num(254, 10))],
                           Nearest(Num(254, 10))],
                Abs(v)]

---------------------------------------------------------------------------
(* formatting                                                              *)

\* ToIntegerOrInfinity of a non-negative number: the digits count toFixed uses.
ToInteger(x) == x \div Scale

RECURSIVE Pow10(_)
Pow10(p) == IF p = 0 THEN 1 ELSE 10 * Pow10(p - 1)

DigitChars == <<"0", "1", "2", "3", "4", "5", "6", "7", "8", "9">>

RECURSIVE NatStr(_)
NatStr(n) ==
  IF n < 10 THEN DigitChars[n + 1]
  ELSE NatStr(n \div 10) \o DigitChars[(n % 10) + 1]

\* The p-digit decimal spelling of f < 10^p, leading zeros kept.
RECURSIVE FracStr(_, _)
FracStr(f, p) ==
  IF p = 0 THEN ""
  ELSE FracStr(f \div 10, p - 1) \o DigitChars[(f % 10) + 1]

\* Number.prototype.toFixed on a double of exact value v that lies dev
\* (-1, 0, 1) below, on or above v: the multiple of 10^-digits nearest the
\* double, the larger one when the double is midway; as sign, integer part
\* and fraction digits.  The double is within an ulp or two of v, so it
\* decides the digits only when v itself is midway.
toFixedOf(v, dev, digits) ==
  LET p == ToInteger(digits)
      a == Abs(v)
      q == a \div Scale
      t == 2 * (a % Scale) * Pow10(p)
      half == t % (2 * Scale)
      up == half > Scale \/ (half = Scale /\ dev >= 0)
      f == t \div (2 * Scale) + (IF up THEN 1 ELSE 0)
      carry == f >= Pow10(p)
  IN [neg |-> v < 0,
      int |-> IF carry THEN q + 1 ELSE q,
      frac |-> IF carry THEN 0 ELSE f,
      p |-> p]

toFixedParts(x, digits) == toFixedOf(x.v, Dev(x), digits)

PartsStr(t) ==
  (IF t.neg THEN "-" ELSE "") \o NatStr(t.int)
    \o (IF t.p > 0 THEN "." \o FracStr(t.frac, t.p) ELSE "")

toFixed(x, digits) == PartsStr(toFixedParts(x, digits))

\* inchesToEngineeringStr, as its parts: sign, feet and the rendered inches.
\* A double just under a whole number m of feet has floor(abs / 12) = m - 1:
\* the quotient lies further under m than half the gap to the next double
\* below m.  abs - feet * 12 is exact in doubles (a difference of multiples
\* of the ulp of abs, smaller than abs), so inch lies on the same side of
\* its exact value as abs.
engParts(inches, precision) ==
  LET abs == Abs(inches.v)
      under == abs # 0 /\ abs % (12 * Scale) = 0 /\ Dev(inches) < 0
      feet == abs \div (12 * Scale) - (IF under THEN 1 ELSE 0)
      inch == abs - feet * 12 * Scale
  IN [sign |-> IF inches.v < 0 THEN "-" ELSE "",
      feet |-> feet,
      inc |-> toFixedOf(inch, Dev(inches), precision)]

inchesToEngineeringStr(inches, precision) ==
  LET e == engParts(inches, precision)
  IN e.sign \o NatStr(e.feet) \o "'-" \o PartsStr(e.inc) \o "\""

formatValue_noConvert(valueInInches, u, precision) ==
  IF u = "in" THEN toFixed(valueInInches, precision) \o "\""
  ELSE toFixed(valueInInches, precision) \o " mm"

formatValue(valueInInches, u, precision) ==
  IF u = "in" THEN toFixed(valueInInches, precision) \o "\""
  ELSE toFixed(Times(valueInInches, 254, 10), precision) \o " mm"

---------------------------------------------------------------------------
(* inputs                                                                  *)

RawStepIn == Num(47, 2)

RawStepMm == Num(3048, 10)

\* The numbers of the parameter grid.
RawNumbers(u) ==
  {RawNum(i * (IF u = "in" THEN RawStepIn ELSE RawStepMm)) : i \in 0..MaxRaw}

RawOthers == {RawStr(""), RawStr("abc"), RawNaN, RawInf(1), RawInf(-1)}

Raws(u) == RawNumbers(u) \cup RawOthers

\* What the whole component is driven with: one slider position, the same
\* length in either unit, and the values that are not numbers.
SliderValues(u) == {RawNum(IF u = "in" THEN Num(12, 1) ELSE Num(3048, 10))}

BlurValues(u) == SliderValues(u) \cup RawOthers

PrecisionInputs == {RawStr(""), RawNum(-Scale), RawNum(Num(3, 2)), RawNum(Num(2, 1)),
                    RawNum(Num(3, 1)), RawNum(Num(4, 1)), RawNum(Num(7, 1))}

ZoomInputs == {25, 50}

TypedInputs == {RawStr("abc")}

\* How the slider reports a change: a key press is a discrete event, the
\* pointer moves of a drag are not.
SliderEvents == {"sync", "task"}

---------------------------------------------------------------------------
(* main component: state                                                   *)

VARIABLES
  unit,       \* "in" | "mm"
  precision,  \* decimal places shown, a number
  showDims,   \* the dimensions switch
  zoom,       \* the zoom factor, in tenths (2.5 is 25)
  params,     \* the stored parameter set, in inches: the exact values
  paramUlps,  \* per stored parameter, how many doubles its double lies
              \* above the double nearest the exact value
  inputVals,  \* what the three number inputs show: a raw value per field
  effectDue,  \* the effect on [params, unit] of the last commit: "none" when
              \* it has run, "sync" when it runs before the next event,
              \* "task" when it runs in a later task
  last,       \* history: the field and the class of raw value of the last setParam
  store,      \* the ParameterStore of the specification, run beside the program
  call,       \* a call of a pure helper: its name and arguments
  ret         \* what that call returned

vars == <<unit, precision, showDims, zoom, params, paramUlps, inputVals, effectDue,
          last, store, call, ret>>

Keys == {"width_in", "thickness_in", "centerHoleDia_in"}

Units == {"in", "mm"}

DefaultParams ==
  [width_in |-> Num(10, 1), thickness_in |-> Num(5, 2), centerHoleDia_in |-> Num(5, 2)]

NoUlps == [k \in Keys |-> 0]

\* The body of the useMemo at "constraints / computed": the clamped copy p.
clampParams_rawWidth(s) ==
  [width_in |-> clamp(s.width_in, Num(2, 1), Num(36, 1)),
   thickness_in |-> clamp(s.thickness_in, Num(1, 10), Num(10, 1)),
   centerHoleDia_in |->
     clamp(s.centerHoleDia_in, Num(1, 10), (s.width_in * 9) \div 10)]

clampParams(s) ==
  LET w == clamp(s.width_in, Num(2, 1), Num(36, 1))
  IN [width_in |-> w,
      thickness_in |-> clamp(s.thickness_in, Num(1, 10), Num(10, 1)),
      centerHoleDia_in |-> clamp(s.centerHoleDia_in, Num(1, 10), (w * 9) \div 10)]

\* The stored parameter key as a JavaScript number.
Stored(s, d, key) == [v |-> s[key], src |-> s[key], k |-> d[key], ops |-> <<>>]

\* Math.min, Math.max and clamp on JavaScript numbers.
NumMin(x, y) == IF NumLess(y, x) THEN y ELSE x

NumMax(x, y) == IF NumLess(x, y) THEN y ELSE x

clampNum(v, min, max) == NumMax(min, NumMin(max, v))

\* The same clamped copy p as JavaScript numbers, as they reach toFixed.
clampNumbers(s, d) ==
  LET w == clampNum(Stored(s, d, "width_in"), Lit(Num(2, 1)), Lit(Num(36, 1)))
  IN [width_in |-> w,
      thickness_in |->
        clampNum(Stored(s, d, "thickness_in"), Lit(Num(1, 10)), Lit(Num(10, 1))),
      centerHoleDia_in |->
        clampNum(Stored(s, d, "centerHoleDia_in"), Lit(Num(1, 10)), Times(w, 9, 10))]

scale == 8

\* px = x * scale * zoom; zoom is kept in tenths, hence the division by 10.
px(x) == (x * scale * zoom) \div 10

computed ==
  LET p == clampParams(params)
  IN [p |-> p, hw |-> p.width_in \div 2, ht |-> p.thickness_in \div 2, scale |-> scale]

\* The updater setParam hands to setParams, applied to the stored set s.
setParam_rawFallback(s, u, key, uiValue) ==
  [s EXCEPT ![key] = fromUi(u, ensureNumber(uiValue, s[key]))]

setParam(s, u, key, uiValue) ==
  [s EXCEPT ![key] = fromUi(u, ensureNumber(uiValue, uiVal(u, s[key])))]

\* QuotientUlps and RoundTripUlps, worked out once for the numbers of the
\* input sets and the values stored from them.
MmNumbers == {r.n : r \in RawNumbers("mm") \cup SliderValues("mm")}

StoredValues ==
  {DefaultParams[k] : k \in Keys}
    \cup {r.n : r \in RawNumbers("in") \cup SliderValues("in")}
    \cup {fromUi("mm", v) : v \in MmNumbers}

QuotientTable == [v \in MmNumbers |-> QuotientUlps(v, 0)]

RoundTripTable == [v \in StoredValues, k \in -1..1 |-> RoundTripUlps(v, k)]

QuotientUlpsOf(v) ==
  IF v \in DOMAIN QuotientTable THEN QuotientTable[v] ELSE QuotientUlps(v, 0)

RoundTripUlpsOf(v, k) ==
  IF <<v, k>> \in DOMAIN RoundTripTable THEN RoundTripTable[v, k] ELSE RoundTripUlps(v, k)

\* The same updater on the doubles: a raw number is the double nearest its
\* value; fromUi divides it by 25.4 in millimetres; the fallback is the
\* stored double itself in inches and, in millimetres, the stored double
\* times 25.4 over 25.4.
setParamUlps(s, d, u, key, uiValue) ==
  LET n == Number(uiValue)
  IN [d EXCEPT ![key] =
        IF isFinite(n) THEN (IF u = "in" THEN 0 ELSE QuotientUlpsOf(n.n))
        ELSE IF u = "in" THEN d[key]
        ELSE RoundTripUlpsOf(s[key], d[key])]

\* What downloadJSON serializes: the stored set itself.
downloadJSON == params

\* The effect on [params, unit]: the inputs show the stored values in unit u.
syncInputVals(s, u) == [k \in Keys |-> RawNum(uiVal(u, s[k]))]

RawClass(raw) ==
  IF raw.kind = "str" /\ raw.s \in {"", " "} THEN "empty"
  ELSE IF isFinite(Number(raw)) THEN "finite"
  ELSE "nonfinite"

---------------------------------------------------------------------------
(* The ParameterStore of the specification (section 4.2): update converts, *)
(* falls back to the stored value on invalid input, merges, then clamps    *)
(* and stores width, thickness and centerHoleDiameter in that order.  Raw  *)
(* values are read with Number, as the program reads them.                 *)

update(st, field, rawValue, u) ==
  LET n == Number(rawValue)
      v == IF isFinite(n) THEN fromUi(u, n.n) ELSE st[field]
      m == [st EXCEPT ![field] = v]
      w == clamp(m.width_in, Num(2, 1), Num(36, 1))
  IN [width_in |-> w,
      thickness_in |-> clamp(m.thickness_in, Num(1, 10), Num(10, 1)),
      centerHoleDia_in |-> clamp(m.centerHoleDia_in, Num(1, 10), (w * 9) \div 10)]

---------------------------------------------------------------------------
(* drawing helpers                                                         *)

\* a / b for pixel lengths a and b: the pure ratio, NaN or an infinity when
\* b is 0.  On the anchors modelled here (axis-aligned or coincident) the
\* ratio is one of -1, 0, 1 and is kept unscaled.
JsDiv(a, b) ==
  IF b = 0 THEN (IF a = 0 THEN NaN ELSE IF a < 0 THEN NegInf ELSE PosInf)
  ELSE Fin(a \div b)

JsNeg(u) == IF u.c = "NaN" THEN NaN ELSE [c |-> u.c, n |-> -u.n]

\* u * k for a ratio u and a pixel length k.
JsTimes(u, k) ==
  IF u.c = "NaN" THEN NaN
  ELSE IF isFinite(u) THEN Fin(u.n * k)
  ELSE IF k = 0 THEN NaN
  ELSE IF (u.n < 0) = (k < 0) THEN PosInf ELSE NegInf

\* x + v for a pixel length x.
JsAdd(x, v) == IF isFinite(v) THEN Fin(x + v.n) ELSE v

\* (a + b) / 2 + k.
JsMid(a, b, k) ==
  IF a.c = "NaN" \/ b.c = "NaN" THEN NaN
  ELSE IF isFinite(a) /\ isFinite(b) THEN Fin((a.n + b.n) \div 2 + k)
  ELSE IF isFinite(a) THEN b
  ELSE IF isFinite(b) \/ a.n = b.n THEN a
  ELSE NaN

\* Math.hypot on an axis-aligned or zero vector.
hypot(dx, dy) == IF dy = 0 THEN Abs(dx) ELSE Abs(dy)

\* len || 1
lenOr1_none(len) == len

lenOr1(len) == IF len = 0 THEN Num(1, 1) ELSE len

\* Dim: the two extension lines, the dimension line and the label anchor.
\* rotate is 0 when the prop is absent.  den is the divisor of ux and uy.
Dim(x1, y1, x2, y2, offset, text, rotate) ==
  LET dx == x2 - x1
      dy == y2 - y1
      len == hypot(dx, dy)
      ux == JsDiv(dx, lenOr1(len))
      uy == JsDiv(dy, lenOr1(len))
      nx == JsNeg(uy)
      ny == ux
      ox == JsAdd(x1, JsTimes(nx, offset))
      oy == JsAdd(y1, JsTimes(ny, offset))
      qx == JsAdd(x2, JsTimes(nx, offset))
      qy == JsAdd(y2, JsTimes(ny, offset))
  IN [ext1 |-> [x1 |-> Fin(x1), y1 |-> Fin(y1), x2 |-> ox, y2 |-> oy],
      ext2 |-> [x1 |-> Fin(x2), y1 |-> Fin(y2), x2 |-> qx, y2 |-> qy],
      line |-> [x1 |-> ox, y1 |-> oy, x2 |-> qx, y2 |-> qy],
      tx |-> JsMid(ox, qx, IF rotate # 0 THEN Num(14, 1) ELSE 0),
      ty |-> JsMid(oy, qy, -(IF rotate # 0 THEN Num(22, 1) ELSE Num(6, 1))),
      text |-> text,
      rotate |-> rotate,
      den |-> lenOr1(len)]

---------------------------------------------------------------------------
(* render                                                                  *)

margin_half == Num(50, 1)

margin == Num(100, 1)

widthPx == px(computed.p.width_in) + margin * 2

heightPx == px(computed.p.thickness_in) + margin * 2

left == -computed.hw

right == computed.hw

top == -computed.ht

bottom == computed.ht

\* The diameter sign U+2300 that prefixes the hole label.
DiaSymbol == "{U+2300}"

\* p as JavaScript numbers.
pNumbers == clampNumbers(params, paramUlps)

\* The text props of the three Dim elements.
widthText ==
  "WIDTH = " \o
    (IF unit = "in" THEN inchesToEngineeringStr(pNumbers.width_in, precision)
     ELSE formatValue(pNumbers.width_in, unit, precision))

thicknessText == formatValue(pNumbers.thickness_in, unit, precision)

holeText == DiaSymbol \o formatValue(pNumbers.centerHoleDia_in, unit, precision)

\* The svg element: viewBox, hatches, plate outline, slot, axes, dimensions;
\* and the rows of the properties panel.
Scene ==
  LET p == computed.p
      plate == [x |-> px(left), y |-> px(top),
                width |-> px(p.width_in), height |-> px(p.thickness_in)]
  IN [viewBox |-> [x |-> -(widthPx \div 2), y |-> -(heightPx \div 2),
                   width |-> widthPx, height |-> heightPx],
      hatch |-> <<plate,
                  [x |-> px(right) - px(p.width_in), y |-> px(top),
                   width |-> px(p.width_in), height |-> px(p.thickness_in)]>>,
      plate |-> plate,
      hole |-> [x |-> px(-(p.centerHoleDia_in \div 2)), y |-> px(top),
                width |-> px(p.centerHoleDia_in), height |-> px(p.thickness_in)],
      axes |-> <<[x1 |-> -widthPx, y1 |-> 0, x2 |-> widthPx, y2 |-> 0],
                 [x1 |-> 0, y1 |-> -heightPx, x2 |-> 0, y2 |-> heightPx]>>,
      dims |-> IF showDims
               THEN <<Dim(px(left), px(bottom), px(right), px(bottom),
                          Num(40, 1), widthText, 0),
                      Dim(px(left), px(top), px(left), px(bottom),
                          Num(60, 1), thicknessText, -90),
                      Dim(px(-(p.centerHoleDia_in \div 2)), px(top),
                          px(p.centerHoleDia_in \div 2), px(top),
                          Num(-20, 1), holeText, 0)>>
               ELSE <<>>,
      props |-> [k \in Keys |-> formatValue(pNumbers[k], unit, precision)]]

---------------------------------------------------------------------------
(* handlers and the effect                                                 *)

\* The state of the first render; its effect is still to run.
Init ==
  /\ unit = "in"
  /\ precision = Num(2, 1)
  /\ showDims = TRUE
  /\ zoom = 25
  /\ params = DefaultParams
  /\ paramUlps = NoUlps
  /\ inputVals = syncInputVals(DefaultParams, "in")
  /\ effectDue = "task"
  /\ last = [k |-> "none", cls |-> "none"]
  /\ store = DefaultParams
  /\ call = [fn |-> "none"]
  /\ ret = [fn |-> "none"]

\* The effect of a discrete event's update (click, blur, key) runs before
\* the next event is handled.
NoEffectFirst == effectDue # "sync"

\* React.useEffect(..., [params, unit]): setInputVals of the stored values.
RunEffect ==
  /\ effectDue # "none"
  /\ inputVals' = syncInputVals(params, unit)
  /\ effectDue' = "none"
  /\ UNCHANGED <<unit, precision, showDims, zoom, params, paramUlps, last, store, call, ret>>

\* An effect that is still due runs before the next render: inputVals as
\* the render of a new update finds it.
Flushed == IF effectDue = "none" THEN inputVals ELSE syncInputVals(params, unit)

\* setParam(key, uiValue): a new params object is committed, and its effect
\* is due.
SetParamStep(k, raw, event) ==
  /\ NoEffectFirst
  /\ params' = setParam(params, unit, k, raw)
  /\ paramUlps' = setParamUlps(params, paramUlps, unit, k, raw)
  /\ inputVals' = Flushed
  /\ effectDue' = event
  /\ UNCHANGED <<unit, precision, showDims, zoom, call, ret>>

\* Slider onValueChange.
SliderChange(k, v, event) ==
  /\ SetParamStep(k, v, event)
  /\ UNCHANGED <<last, store>>

\* Input onBlur, and onKeyDown with Enter.
HandleInputBlur(k, val) ==
  /\ SetParamStep(k, val, "sync")
  /\ UNCHANGED <<last, store>>

\* Input onChange: the typed text is shown; an effect that is due will
\* overwrite it.
HandleInputChange(k, val) ==
  /\ NoEffectFirst
  /\ inputVals' = [inputVals EXCEPT ![k] = val]
  /\ UNCHANGED <<unit, precision, showDims, zoom, params, paramUlps, effectDue,
                 last, store, call, ret>>

\* A setter of view state called with value v where the state holds old:
\* the same value commits nothing, a new one renders again.
ViewCommit(old, v) ==
  IF v = old THEN UNCHANGED <<inputVals, effectDue>>
  ELSE inputVals' = Flushed /\ effectDue' = "none"

SetUnit_convert(u) ==
  /\ NoEffectFirst
  /\ unit' = u
  /\ params' = IF u = unit THEN params ELSE [k \in Keys |-> uiVal(u, params[k])]
  /\ IF u = unit THEN UNCHANGED <<inputVals, effectDue>>
     ELSE inputVals' = Flushed /\ effectDue' = "sync"
  /\ UNCHANGED <<precision, showDims, zoom, paramUlps, last, store, call, ret>>

\* The unit buttons; a new unit makes the effect due.
SetUnit(u) ==
  /\ NoEffectFirst
  /\ unit' = u
  /\ IF u = unit THEN UNCHANGED <<inputVals, effectDue>>
     ELSE inputVals' = Flushed /\ effectDue' = "sync"
  /\ UNCHANGED <<precision, showDims, zoom, params, paramUlps, last, store, call, ret>>

\* Number(v) || 0, then clamp to [0, 4].
SetPrecision(raw) ==
  LET n == Number(raw)
      v == IF n.c = "NaN" \/ (isFinite(n) /\ n.n = 0) THEN Fin(0) ELSE n
  IN /\ NoEffectFirst
     /\ precision' = (IF isFinite(v) THEN clamp(v.n, 0, Num(4, 1))
                      ELSE IF v.n > 0 THEN Num(4, 1) ELSE 0)
     /\ ViewCommit(precision, precision')
     /\ UNCHANGED <<unit, showDims, zoom, params, paramUlps, last, store, call, ret>>

SetZoom(z) ==
  /\ NoEffectFirst
  /\ zoom' = z
  /\ ViewCommit(zoom, z)
  /\ UNCHANGED <<unit, precision, showDims, params, paramUlps, last, store, call, ret>>

SetShowDims(b) ==
  /\ NoEffectFirst
  /\ showDims' = b
  /\ ViewCommit(showDims, b)
  /\ UNCHANGED <<unit, precision, zoom, params, paramUlps, last, store, call, ret>>

Next ==
  \/ RunEffect
  \/ \E k \in Keys, v \in SliderValues(unit), e \in SliderEvents : SliderChange(k, v, e)
  \/ \E k \in Keys, val \in BlurValues(unit) : HandleInputBlur(k, val)
  \/ \E k \in Keys, val \in TypedInputs : HandleInputChange(k, val)
  \/ \E u \in Units : SetUnit(u)
  \/ \E raw \in PrecisionInputs : SetPrecision(raw)
  \/ \E z \in ZoomInputs : SetZoom(z)
  \/ \E b \in BOOLEAN : SetShowDims(b)

Spec == Init /\ [][Next]_vars

---------------------------------------------------------------------------
(* The drawing: the component taken through the parameter grid by its      *)
(* number inputs, in every view.                                           *)

NextDraw ==
  \/ RunEffect
  \/ \E k \in Keys, val \in Raws(unit) : HandleInputBlur(k, val)
  \/ \E u \in Units : SetUnit(u)
  \/ \E raw \in PrecisionInputs : SetPrecision(raw)
  \/ \E z \in ZoomInputs : SetZoom(z)
  \/ \E b \in BOOLEAN : SetShowDims(b)

SpecDraw == Init /\ [][NextDraw]_vars

---------------------------------------------------------------------------
(* The parameter handlers with their history: which field the last         *)
(* setParam wrote and from which class of raw value, and the store of the  *)
(* specification taking the same updates.                                  *)

SetParamHist(k, raw, event) ==
  /\ SetParamStep(k, raw, event)
  /\ last' = [k |-> k, cls |-> RawClass(raw)]
  /\ store' = update(store, k, raw, unit)

SliderChangeHist(k, v, event) == SetParamHist(k, v, event)

HandleInputBlurHist(k, val) == SetParamHist(k, val, "sync")

NextHist ==
  \/ RunEffect
  \/ \E k \in Keys, v \in RawNumbers(unit), e \in SliderEvents : SliderChangeHist(k, v, e)
  \/ \E k \in Keys, val \in Raws(unit) : HandleInputBlurHist(k, val)
  \/ \E u \in Units : SetUnit(u)

SpecHist == Init /\ [][NextHist]_vars

---------------------------------------------------------------------------
(* The pure helpers called on their own: one call, then its result.        *)

EngBases == {0, Num(3, 1), Num(10, 1), Num(23, 2), Num(4799, 400)}

EngInputs ==
  {s * (b + f * 12 * Scale) : s \in {-1, 1}, b \in EngBases, f \in 0..MaxFeet}

Points == {i * Num(50, 1) : i \in (-MaxPt)..MaxPt}

Offsets == {Num(-20, 1), 0, Num(40, 1), Num(60, 1)}

NoArgs == [x1 |-> 0, y1 |-> 0, x2 |-> 0, y2 |-> 0, offset |-> 0, rotate |-> 0,
           inches |-> 0, precision |-> 0]

EngCalls ==
  {[NoArgs EXCEPT !.inches = v, !.precision = Num(d, 1)] : v \in EngInputs, d \in 0..4}

DimCalls ==
  {[NoArgs EXCEPT !.x1 = a[1], !.y1 = a[2], !.x2 = a[3], !.y2 = a[4],
                  !.offset = o, !.rotate = r] :
     a \in {b \in Points \X Points \X Points \X Points : b[1] = b[3] \/ b[2] = b[4]},
     o \in Offsets, r \in {0, -90}}

InitPure ==
  /\ unit = "in"
  /\ precision = Num(2, 1)
  /\ showDims = TRUE
  /\ zoom = 25
  /\ params = DefaultParams
  /\ paramUlps = NoUlps
  /\ inputVals = syncInputVals(DefaultParams, "in")
  /\ effectDue = "task"
  /\ last = [k |-> "none", cls |-> "none"]
  /\ store = DefaultParams
  /\ \/ \E a \in EngCalls : call = [fn |-> "inchesToEngineeringStr", args |-> a]
     \/ \E a \in DimCalls : call = [fn |-> "Dim", args |-> a]
  /\ ret = [fn |-> "none"]

\* inchesToEngineeringStr on a number literal.
CallEng ==
  /\ call.fn = "inchesToEngineeringStr"
  /\ ret.fn = "none"
  /\ ret' = [fn |-> call.fn,
             parts |-> engParts(Lit(call.args.inches), call.args.precision),
             str |-> inchesToEngineeringStr(Lit(call.args.inches), call.args.precision)]
  /\ UNCHANGED <<unit, precision, showDims, zoom, params, paramUlps, inputVals, effectDue,
                 last, store, call>>

CallDim ==
  /\ call.fn = "Dim"
  /\ ret.fn = "none"
  /\ ret' = [fn |-> call.fn,
             dim |-> Dim(call.args.x1, call.args.y1, call.args.x2, call.args.y2,
                         call.args.offset, "", call.args.rotate)]
  /\ UNCHANGED <<unit, precision, showDims, zoom, params, paramUlps, inputVals, effectDue,
                 last, store, call>>

NextPure == CallEng \/ CallDim

SpecPure == InitPure /\ [][NextPure]_vars

---------------------------------------------------------------------------
(* Properties                                                              *)

\* The three invariants of PlateParameters, the hole bound against s.width_in.
InRange(s) ==
  /\ Num(2, 1) <= s.width_in /\ s.width_in <= Num(36, 1)
  /\ Num(1, 10) <= s.thickness_in /\ s.thickness_in <= Num(10, 1)
  /\ Num(1, 10) <= s.centerHoleDia_in
  /\ 10 * s.centerHoleDia_in <= 9 * s.width_in

\* C1: the stored parameter set, which downloadJSON serializes, satisfies
\* 2 <= width <= 36, 0.1 <= thickness <= 10 and 0.1 <= hole <= 0.9 * width
\* in every state.
C1_StoredInRange == InRange(downloadJSON)

\* C2: the derived geometry computed.p satisfies the three invariants in
\* every state, the hole bound taken against the clamped width.
C2_ComputedInRange == InRange(computed.p)

\* A state where the stored width was set below the stored hole size.
C2_Witness ==
  /\ params.width_in # DefaultParams.width_in
  /\ Num(2, 1) <= params.width_in
  /\ params.width_in < params.centerHoleDia_in

\* C3: setParam(k, raw) with a raw value that is not a finite number leaves
\* the stored value of k and the other two fields as they were, and yields
\* a number.
C3_InvalidKeepsValue ==
  [][\A k \in Keys, raw \in Raws(unit), e \in SliderEvents :
       (/\ ~isFinite(Number(raw))
        /\ last'.k = k /\ effectDue' = e    \* both follow from SetParamHist
        /\ SetParamHist(k, raw, e))
         => (params' = params /\ params'[k] \in Int)]_vars

\* The last setParam had a non-finite raw value, in millimetres, on a stored
\* set that earlier updates had changed.
C3_Witness ==
  /\ last.cls = "nonfinite"
  /\ unit = "mm"
  /\ params[last.k] \notin {0, DefaultParams[last.k]}

\* C4: handleInputBlur(k, "") leaves the stored value and the drawn value of
\* field k as they were.
C4_EmptyInputNoChange ==
  [][\A k \in Keys :
       HandleInputBlur(k, RawStr(""))
         => /\ params'[k] = params[k]
            /\ clampParams(params')[k] = clampParams(params)[k]]_vars

\* C5: the parameter set the program draws equals the snapshot of the
\* specified ParameterStore after the same updates.
C5_DrawnEqualsStore == computed.p = store

\* C6: inchesToEngineeringStr prints feet = floor(|value| / 12), the sign
\* once, and an inches part that as rendered is below 12.
C6_EngInchesBelow12 ==
  ret.fn = "inchesToEngineeringStr" =>
    /\ ret.parts.feet = Abs(call.args.inches) \div (12 * Scale)
    /\ ret.parts.sign = (IF call.args.inches < 0 THEN "-" ELSE "")
    /\ ~ret.parts.inc.neg
    /\ ret.parts.inc.int < 12

\* formatDecimal and formatEngineering as section 4.1 states them, on
\* JavaScript numbers.
FormatDecimal(base, u, digits) ==
  PartsStr(IF u = "mm" THEN toFixedOf((base.v * 254) \div 10, Dev(Times(base, 254, 10)), digits)
           ELSE toFixedOf(base.v, Dev(base), digits))
    \o (IF u = "mm" THEN " mm" ELSE "\"")

FormatEngineering(base, digits) ==
  LET abs == Abs(base.v)
      feet == IF abs # 0 /\ abs % (12 * Scale) = 0 /\ Dev(base) < 0
              THEN abs \div (12 * Scale) - 1
              ELSE abs \div (12 * Scale)
  IN (IF base.v < 0 THEN "-" ELSE "") \o NatStr(feet) \o "'-"
       \o PartsStr(toFixedOf(abs - feet * 12 * Scale, Dev(base), digits)) \o "\""

AtDefaults ==
  params = DefaultParams /\ unit = "in" /\ precision = Num(2, 1)

\* C7 as claimed: with showDims there are exactly three annotations, the
\* width label being the bare engineering string (Imperial) or decimal mm
\* string, 0'-10.00" at the defaults.
C7_LabelsAsClaimed ==
  showDims =>
    LET dims == Scene.dims
    IN /\ Len(dims) = 3
       /\ dims[1].text =
            (IF unit = "in" THEN FormatEngineering(pNumbers.width_in, precision)
             ELSE FormatDecimal(pNumbers.width_in, unit, precision))
       /\ dims[2].text = FormatDecimal(pNumbers.thickness_in, unit, precision)
       /\ dims[3].text =
            DiaSymbol \o FormatDecimal(pNumbers.centerHoleDia_in, unit, precision)
       /\ AtDefaults => dims[1].text = "0'-10.00\""

\* C7 amended: with showDims there are exactly three annotations; the width
\* label is "WIDTH = " followed by the engineering string (Imperial) or the
\* decimal mm string of the clamped width, the thickness label the decimal
\* string of the clamped thickness, the hole label the diameter sign and the
\* decimal string of the clamped hole; WIDTH = 0'-10.00", 2.50" and
\* (diameter sign)2.50" at the defaults.
C7_Labels ==
  showDims =>
    LET dims == Scene.dims
    IN /\ Len(dims) = 3
       /\ dims[1].text =
            "WIDTH = " \o
              (IF unit = "in" THEN FormatEngineering(pNumbers.width_in, precision)
               ELSE FormatDecimal(pNumbers.width_in, unit, precision))
       /\ dims[2].text = FormatDecimal(pNumbers.thickness_in, unit, precision)
       /\ dims[3].text =
            DiaSymbol \o FormatDecimal(pNumbers.centerHoleDia_in, unit, precision)
       /\ AtDefaults =>
            /\ dims[1].text = "WIDTH = 0'-10.00\""
            /\ dims[2].text = "2.50\""
            /\ dims[3].text = "{U+2300}2.50\""

\* Dimensions shown in millimetres at a precision other than 2, of a stored
\* set that the clamp changes.
C7_Witness ==
  /\ showDims
  /\ unit = "mm"
  /\ precision # Num(2, 1)
  /\ computed.p # params

CoordsOf(d) ==
  {d.ext1.x1, d.ext1.y1, d.ext1.x2, d.ext1.y2,
   d.ext2.x1, d.ext2.y1, d.ext2.x2, d.ext2.y2,
   d.line.x1, d.line.y1, d.line.x2, d.line.y2, d.tx, d.ty}

Coincident(a) == a.x1 = a.x2 /\ a.y1 = a.y2

\* C8: Dim on coincident anchor points divides by the substituted length 1
\* and every coordinate of its lines and label anchor is a finite number.
C8_DegenerateDimFinite ==
  (ret.fn = "Dim" /\ Coincident(call.args)) =>
    /\ ret.dim.den = Num(1, 1)
    /\ \A c \in CoordsOf(ret.dim) : isFinite(c)

\* Dim has returned for coincident anchors off the origin and an offset.
C8_Witness ==
  /\ ret.fn = "Dim"
  /\ Coincident(call.args)
  /\ call.args.x1 # 0
  /\ call.args.offset # 0

ViewStep ==
  \/ \E u \in Units : SetUnit(u)
  \/ \E raw \in PrecisionInputs : SetPrecision(raw)
  \/ \E z \in ZoomInputs : SetZoom(z)
  \/ \E b \in BOOLEAN : SetShowDims(b)

\* C9: setUnit, setPrecision, setZoom and setShowDims leave the stored
\* parameter set, and with it the clamped geometry, unchanged.
C9_ViewLeavesParams ==
  [][ViewStep => /\ params' = params
                 /\ paramUlps' = paramUlps
                 /\ clampParams(params') = clampParams(params)]_vars

\* Every view setting differs from its initial value, on an updated set.
C9_Witness ==
  /\ unit = "mm"
  /\ precision # Num(2, 1)
  /\ zoom # 25
  /\ ~showDims
  /\ params # DefaultParams

InBox(vb, x, y) ==
  /\ vb.x <= x /\ x <= vb.x + vb.width
  /\ vb.y <= y /\ y <= vb.y + vb.height

RectInBox(vb, r) ==
  InBox(vb, r.x, r.y) /\ InBox(vb, r.x + r.width, r.y + r.height)

LineInBox(vb, l) ==
  /\ \A c \in {l.x1, l.y1, l.x2, l.y2} : isFinite(c)
  /\ InBox(vb, l.x1.n, l.y1.n)
  /\ InBox(vb, l.x2.n, l.y2.n)

\* C10: with zoom in [2.5, 5] the plate outline, the slot and the extension
\* and dimension lines of the annotations lie inside the viewBox, which is
\* px(width) + 200 by px(thickness) + 200 about the origin, and the slot lies
\* strictly inside the plate horizontally and spans its height.
C10_InsideViewBox ==
  (25 <= zoom /\ zoom <= 50) =>
    LET sc == Scene
        vb == sc.viewBox
    IN /\ vb.width = px(computed.p.width_in) + Num(200, 1)
       /\ vb.height = px(computed.p.thickness_in) + Num(200, 1)
       /\ 2 * vb.x = -vb.width
       /\ 2 * vb.y = -vb.height
       /\ RectInBox(vb, sc.plate)
       /\ RectInBox(vb, sc.hole)
       /\ \A i \in 1..Len(sc.dims) :
            /\ LineInBox(vb, sc.dims[i].ext1)
            /\ LineInBox(vb, sc.dims[i].ext2)
            /\ LineInBox(vb, sc.dims[i].line)
       /\ sc.plate.x < sc.hole.x
       /\ sc.hole.x + sc.hole.width < sc.plate.x + sc.plate.width
       /\ sc.hole.y = sc.plate.y
       /\ sc.hole.height = sc.plate.height

\* The widest, thinnest plate at full zoom with its dimensions shown.
C10_Witness ==
  /\ showDims
  /\ zoom = 50
  /\ computed.p.width_in = Num(36, 1)
  /\ computed.p.thickness_in = Num(1, 10)

====
